---- MODULE Spec2Model ----
(***************************************************************************)
(* Model of the medical-audio backend: the two FastAPI handlers of         *)
(* backend_api.py (/process_audio, /approve_plan), the agent functions of  *)
(* app/agent/core.py, ensure_wav of app/pipeline/audio_utils.py and        *)
(* calculate_ner_metrics of app/pipeline/nlp_utils.py.                     *)
(*                                                                         *)
(* Text is a sequence of tokens; the Python string is the concatenation of *)
(* the tokens.  The tokens are chosen so that a marker, the word "none",   *)
(* the word "n/a" and white space occur in a concatenation exactly where   *)
(* the token occurs, so str.split / str.strip / str.lower on the string    *)
(* are Split / Strip / Lower on the sequence.                              *)
(*                                                                         *)
(* The LLM, the medicine parser, the spreadsheet writer, the email sender, *)
(* the codec, the speech model, the summarizer and the NER model are       *)
(* collaborators outside the repository's code: each call returns a value  *)
(* or raises, chosen nondeterministically.                                 *)
(***************************************************************************)
EXTENDS Integers, Sequences, FiniteSets, TLC

VARIABLES
  pc,            \* where the running handler / call stands; "idle" between requests
  plan,          \* payload.get('plan_section'): [given, text]
  send_email,    \* bool(payload.get('send_email', True))
  analysis,      \* the outcome of the last llm.invoke
  ret,           \* the dict a direct call of an agent function returned
  results,       \* approve_plan_api: the results dict
  http,          \* the status code of the response, 0 while there is none
  calls,         \* collaborator calls made for the current request / call
  faults,        \* collaborators that raised during the current request
  fs,            \* the files that exist in UPLOAD_FOLDER
  audio,         \* process_audio_api: the request and the handler's locals
  waiting,       \* process_audio_api: the requests suspended at the await
  acalls,        \* process_audio_api / ensure_wav: collaborator calls made
  wav,           \* two ensure_wav calls in a row: input, outcomes, returns
  ner            \* calculate_ner_metrics: the two sets and the metrics

vars == <<pc, plan, send_email, analysis, ret, results, http, calls, faults,
          fs, audio, waiting, acalls, wav, ner>>

\* ------------------------------------------------------------------ bounds
MaxAnalysisLen == 3
MaxPlanLen == 2
MaxStems == 2
MaxEntityTexts == 2
MaxRequests == 2

\* -------------------------------------------------------------- text model
MED == "MEDICINES_FOUND:"
APPT == "APPOINTMENT_FOUND:"
WS == " "

AnalysisTokens == {MED, APPT, WS, "none", "None", "details"}
PlanTokens == {WS, "n/a", "N/A", "rest"}

SeqsUpTo(S, n) == UNION {[1..k -> S] : k \in 0..n}

\* What llm.invoke(...).content can be.
Analyses == SeqsUpTo(AnalysisTokens, MaxAnalysisLen)
\* What payload['plan_section'] can be when it is a string.
PlanTexts == SeqsUpTo(PlanTokens, MaxPlanLen)

\* str.lower on one token
LowerTok(t) ==
  CASE t = "None" -> "none"
    [] t = "N/A" -> "n/a"
    [] t = MED -> "medicines_found:"
    [] t = APPT -> "appointment_found:"
    [] OTHER -> t

\* str.lower
Lower(s) == [i \in 1..Len(s) |-> LowerTok(s[i])]

\* str.strip: leading and trailing white space removed
RECURSIVE LStrip(_)
LStrip(s) == IF s # <<>> /\ Head(s) = WS THEN LStrip(Tail(s)) ELSE s
RECURSIVE RStrip(_)
RStrip(s) ==
  IF s # <<>> /\ s[Len(s)] = WS THEN RStrip(SubSeq(s, 1, Len(s) - 1)) ELSE s
Strip(s) == LStrip(RStrip(s))

\* sep in s
Contains(s, sep) == \E i \in 1..Len(s) : s[i] = sep

\* index of the first occurrence of sep in s, 0 when there is none
IndexOf(s, sep) ==
  IF Contains(s, sep)
  THEN CHOOSE i \in 1..Len(s) : s[i] = sep /\ \A j \in 1..(i - 1) : s[j] # sep
  ELSE 0

\* s.split(sep)[0]: the text before the first sep (all of s without a sep)
SplitAt0(s, sep) ==
  IF Contains(s, sep) THEN SubSeq(s, 1, IndexOf(s, sep) - 1) ELSE s

\* s.split(sep)[1], for s that contains sep: the text between the first sep
\* and the second sep (or the end of s)
SplitAt1(s, sep) ==
  SplitAt0(SubSeq(s, IndexOf(s, sep) + 1, Len(s)), sep)

\* ------------------------------------------------------- result dictionaries
\* A dict returned by the agent functions.  Every value is text; a key the
\* dict does not hold is Absent, a key holding Python's None is PyNone.
Absent == <<"<absent>">>
PyNone == <<"<None>">>

Res(status, result, email_content, message, error) ==
  [status |-> status, result |-> result, email_content |-> email_content,
   message |-> message, error |-> error]

\* no dict at all (a results key that was never set)
NoRes == Res("absent", Absent, Absent, Absent, Absent)

\* an exception that propagates out of a function instead of a returned dict
Raised(msg) == Res("raise", Absent, Absent, Absent, msg)

\* the collaborator calls one function call made
NoCalls == [llm |-> 0, parser |-> 0, excel |-> 0, email |-> 0]
\* what a call gives back: the dict (or the exception), the collaborator calls
\* it made and the collaborator that raised ("none" when none did)
Out(r, c, f) == [ret |-> r, calls |-> c, fault |-> f]

\* what llm.invoke does: raises, or returns a response with .content
LLMOutcomes == {[ok |-> FALSE, content |-> <<>>]}
                 \cup {[ok |-> TRUE, content |-> a] : a \in Analyses}

\* the LLM outcomes the /approve_plan handler is driven with: it calls the LLM
\* up to three times per request, so it gets the shorter answers (the agent
\* functions are exercised on every answer by direct calls)
HandlerLLMOutcomes == {l \in LLMOutcomes : Len(l.content) < MaxAnalysisLen}

ErrLLM == <<"llm error">>
ErrParser == <<"parser error">>
ErrExcel == <<"excel error">>
ErrEmail == <<"email error">>
ExcelResult == <<"medicines saved">>
EmailResult == <<"email sent">>
NoMedicines == <<"No medicines found.">>
NoAppointment == <<"No appointment found.">>
NoAppointmentInfo == <<"No appointment information found in the plan.">>
MsgPreview == <<"Email content generated for preview">>
MsgSent == <<"Appointment email sent successfully">>

\* ------------------------------------------------------ app/agent/core.py
\* the medicines payload of an analysis that contains the MED marker
MedicinesText(llm_text) ==
  LET medicines_section == SplitAt1(llm_text, MED)
  IN IF Contains(medicines_section, APPT)
     THEN Strip(SplitAt0(medicines_section, APPT))
     ELSE Strip(medicines_section)

\* the condition under which a payload is acted on
Actionable(text) == Lower(text) # <<"none">> /\ Strip(text) # <<>>

\* the except clause of process_medicines / process_appointment
Guarded(msg) == Res("error", Absent, Absent, Absent, msg)

\* a variant whose except clause is missing: the exception propagates
Unguarded(msg) == Raised(msg)

MedicinesGuard(msg) == Guarded(msg)

\* a variant of the payload test that forgets the case-insensitive "none"
ActionableCaseSensitive(text) == text # <<"none">> /\ Strip(text) # <<>>

MedicinesActionable(text) == Actionable(text)

process_medicines(plan_section, llm, parser_ok, excel_ok) ==
  LET c1 == [NoCalls EXCEPT !.llm = 1]
      c2 == [c1 EXCEPT !.parser = 1]
      c3 == [c2 EXCEPT !.excel = 1]
  IN IF ~llm.ok THEN Out(MedicinesGuard(ErrLLM), c1, "llm")
     ELSE IF Contains(llm.content, MED)
               /\ MedicinesActionable(MedicinesText(llm.content))
     THEN IF ~parser_ok THEN Out(MedicinesGuard(ErrParser), c2, "parser")
          ELSE IF ~excel_ok THEN Out(MedicinesGuard(ErrExcel), c3, "excel")
          ELSE Out(Res("success", ExcelResult, Absent, Absent, Absent), c3, "none")
     ELSE Out(Res("success", NoMedicines, Absent, Absent, Absent), c1, "none")

\* the fixed email template around the two embedded texts
EmailHead == <<"Subject: Medical Appointment Confirmation ... APPOINTMENT DETAILS:">>
EmailMid == <<"FULL TREATMENT PLAN:">>
EmailTail == <<"IMPORTANT REMINDERS: ... Medical Team">>

generate_appointment_email_content(appointment_text, plan_section) ==
  EmailHead \o appointment_text \o EmailMid \o plan_section \o EmailTail

\* the appointment payload of an analysis that contains the APPT marker
AppointmentText(llm_text) == Strip(SplitAt1(llm_text, APPT))

AppointmentGuard(msg) == Guarded(msg)

\* a variant that dispatches the email before looking at send_email
SendsRegardless(flag) == TRUE

MustSend(flag) == flag

\* a variant of the no-appointment return that always carries the fallback
FallbackAlways(flag) == NoAppointmentInfo

FallbackContent(flag) == IF ~flag THEN NoAppointmentInfo ELSE PyNone

process_appointment(plan_section, flag, llm, email_ok) ==
  LET c1 == [NoCalls EXCEPT !.llm = 1]
      c2 == [c1 EXCEPT !.email = 1]
  IN IF ~llm.ok THEN Out(AppointmentGuard(ErrLLM), c1, "llm")
     ELSE IF Contains(llm.content, APPT)
               /\ Actionable(AppointmentText(llm.content))
     THEN LET email_content ==
                generate_appointment_email_content(
                  AppointmentText(llm.content), plan_section)
          IN IF ~MustSend(flag)
             THEN Out(Res("success", Absent, email_content, MsgPreview, Absent),
                      c1, "none")
             ELSE IF ~email_ok THEN Out(AppointmentGuard(ErrEmail), c2, "email")
             ELSE Out(Res("success", EmailResult, Absent, MsgSent, Absent),
                      c2, "none")
     ELSE Out(Res("success", NoAppointment, FallbackContent(flag),
                  Absent, Absent), c1, "none")

\* ------------------------------------------------------------ idle values
NoPlan == [given |-> FALSE, text |-> <<>>]
NoAnalysis == [ok |-> FALSE, content |-> <<>>]
NoResults == [medicine_processing |-> NoRes, appointment_preview |-> NoRes,
              appointment_sending |-> NoRes, status |-> Absent, message |-> Absent]
NoAudioCalls == [save |-> 0, codec |-> 0, whisper |-> 0, gemini |-> 0, ner |-> 0]
NoPath == <<>>
NoMetrics == [TP |-> 0, FP |-> 0, FN |-> 0, Precision |-> 0, Recall |-> 0,
              F1_Score |-> 0, raised |-> FALSE]
NoNerOut == [state |-> "skipped", reference |-> {}, system |-> {},
             metrics |-> NoMetrics]
NoAudio == [filename |-> <<>>, section_text |-> <<>>, filepath |-> NoPath,
            wav_path |-> NoPath, transcript |-> <<>>, soap |-> <<>>,
            ner |-> NoNerOut, temp |-> NoPath, created |-> {}]
NoWav == [path |-> NoPath, returns |-> <<>>, codec |-> <<>>, outcomes |-> <<>>]
NoNer == [reference |-> {}, system |-> {}, metrics |-> NoMetrics]

ApproveIdle ==
  /\ plan = NoPlan /\ send_email = FALSE /\ results = NoResults
AgentIdle == analysis = NoAnalysis /\ ret = NoRes
AudioIdle ==
  fs = {} /\ audio = NoAudio /\ waiting = {} /\ acalls = NoAudioCalls
WavIdle == wav = NoWav
NerIdle == ner = NoNer

\* ------------------------------------------- direct calls of the agent code
NotAgentVars == <<results, http, fs, audio, waiting, acalls, wav, ner>>

CallProcessMedicines ==
  /\ pc = "idle"
  /\ \E p \in PlanTexts, l \in LLMOutcomes, parser_ok \in BOOLEAN, excel_ok \in BOOLEAN :
    LET o == process_medicines(p, l, parser_ok, excel_ok)
    IN /\ pc' = "process_medicines"
       /\ plan' = [given |-> TRUE, text |-> p]
       /\ send_email' = FALSE
       /\ analysis' = l
       /\ ret' = o.ret
       /\ calls' = o.calls
       /\ faults' = {o.fault} \ {"none"}
       /\ UNCHANGED NotAgentVars

CallProcessAppointment ==
  /\ pc = "idle"
  /\ \E p \in PlanTexts, s \in BOOLEAN, l \in LLMOutcomes, email_ok \in BOOLEAN :
    LET o == process_appointment(p, s, l, email_ok)
    IN /\ pc' = "process_appointment"
       /\ plan' = [given |-> TRUE, text |-> p]
       /\ send_email' = s
       /\ analysis' = l
       /\ ret' = o.ret
       /\ calls' = o.calls
       /\ faults' = {o.fault} \ {"none"}
       /\ UNCHANGED NotAgentVars

InitAgent ==
  /\ pc = "idle" /\ http = 0 /\ calls = NoCalls /\ faults = {}
  /\ ApproveIdle /\ AgentIdle /\ AudioIdle /\ WavIdle /\ NerIdle

\* the caller drops the returned dict; the next call starts afresh
AgentReturn ==
  /\ pc \in {"process_medicines", "process_appointment"}
  /\ pc' = "idle" /\ plan' = NoPlan /\ send_email' = FALSE
  /\ analysis' = NoAnalysis /\ ret' = NoRes /\ calls' = NoCalls /\ faults' = {}
  /\ UNCHANGED NotAgentVars

NextAgent == CallProcessMedicines \/ CallProcessAppointment \/ AgentReturn

SpecAgent == InitAgent /\ [][NextAgent]_vars

\* ------------------------------------------- backend_api.py: /approve_plan
MsgWarning == <<"No valid plan section provided for approval.">>
MsgExecuted == <<"Plan approved and actions executed (including appointment email).">>
MsgSendFailed == <<"Plan approved, but appointment email sending failed.">>
MsgNotRequested ==
  <<"Plan approved. Email content generated for review; sending not requested.">>
MsgNoAppointment ==
  <<"Plan approved, but no appointment found or email generation failed.">>

\* what the JSON body can give for 'send_email': the key missing, true, false
SendEmailInputs == {"missing", "true", "false"}
\* bool(payload.get('send_email', True))
SendEmailFlag(raw) == raw # "false"

\* what the JSON body can give for 'plan_section': the key missing, or a string
PlanInputs == {NoPlan} \cup {[given |-> TRUE, text |-> t] : t \in PlanTexts}

\* a variant of the guard that compares without str.lower
InvalidPlanCaseSensitive(p) == ~p.given \/ p.text = <<>> \/ Strip(p.text) = <<"n/a">>

\* not plan_section or plan_section.strip().lower() == "n/a"
InvalidPlan(p) == ~p.given \/ p.text = <<>> \/ Lower(Strip(p.text)) = <<"n/a">>

AddCalls(c, d) ==
  [llm |-> c.llm + d.llm, parser |-> c.parser + d.parser,
   excel |-> c.excel + d.excel, email |-> c.email + d.email]
AddFault(fset, step, f) == IF f = "none" THEN fset ELSE fset \cup {<<step, f>>}

NotApproveVars == <<analysis, ret, fs, audio, waiting, acalls, wav, ner>>

\* lines 148-160: read the payload, refuse an invalid plan
ApproveReceive ==
  /\ pc = "idle"
  /\ \E p \in PlanInputs, raw \in SendEmailInputs :
       /\ plan' = p
       /\ send_email' = SendEmailFlag(raw)
       /\ IF InvalidPlan(p)
          THEN /\ results' = [NoResults EXCEPT !.status = <<"warning">>,
                                               !.message = MsgWarning]
               /\ http' = 200
               /\ pc' = "approve_done"
          ELSE /\ results' = NoResults
               /\ http' = 0
               /\ pc' = "approve_medicines"
  /\ UNCHANGED <<calls, faults>>
  /\ UNCHANGED NotApproveVars

\* the handler's except clause, lines 196-198
ApproveFailed ==
  /\ http' = 500 /\ pc' = "approve_done" /\ UNCHANGED results

\* lines 162-165
ApproveMedicines ==
  /\ pc = "approve_medicines"
  /\ \E l \in HandlerLLMOutcomes, parser_ok \in BOOLEAN, excel_ok \in BOOLEAN :
       LET o == process_medicines(plan.text, l, parser_ok, excel_ok)
       IN /\ calls' = AddCalls(calls, o.calls)
          /\ faults' = AddFault(faults, "medicines", o.fault)
          /\ IF o.ret.status = "raise"
             THEN ApproveFailed
             ELSE /\ results' = [results EXCEPT !.medicine_processing = o.ret]
                  /\ pc' = "approve_preview"
                  /\ UNCHANGED http
  /\ UNCHANGED <<plan, send_email>>
  /\ UNCHANGED NotApproveVars

\* lines 167-172 and the branches that respond without sending, 187-194
ApprovePreview ==
  /\ pc = "approve_preview"
  /\ \E l \in HandlerLLMOutcomes, email_ok \in BOOLEAN :
       LET o == process_appointment(plan.text, FALSE, l, email_ok)
           r == [results EXCEPT !.appointment_preview = o.ret]
       IN /\ calls' = AddCalls(calls, o.calls)
          /\ faults' = AddFault(faults, "preview", o.fault)
          /\ IF o.ret.status = "raise"
             THEN ApproveFailed
             ELSE IF o.ret.status = "success" /\ o.ret.email_content # Absent
             THEN IF send_email
                  THEN /\ results' = r
                       /\ pc' = "approve_send"
                       /\ UNCHANGED http
                  ELSE /\ results' = [r EXCEPT !.message = MsgNotRequested]
                       /\ http' = 200
                       /\ pc' = "approve_done"
             ELSE /\ results' = [r EXCEPT !.message = MsgNoAppointment]
                  /\ http' = 200
                  /\ pc' = "approve_done"
  /\ UNCHANGED <<plan, send_email>>
  /\ UNCHANGED NotApproveVars

\* lines 173-186
ApproveSend ==
  /\ pc = "approve_send"
  /\ \E l \in HandlerLLMOutcomes, email_ok \in BOOLEAN :
       LET o == process_appointment(plan.text, TRUE, l, email_ok)
           r == [results EXCEPT !.appointment_sending = o.ret]
       IN /\ calls' = AddCalls(calls, o.calls)
          /\ faults' = AddFault(faults, "sending", o.fault)
          /\ IF o.ret.status = "raise"
             THEN ApproveFailed
             ELSE /\ results' =
                       [r EXCEPT !.message = IF o.ret.status = "success"
                                             THEN MsgExecuted ELSE MsgSendFailed]
                  /\ http' = 200
                  /\ pc' = "approve_done"
  /\ UNCHANGED <<plan, send_email>>
  /\ UNCHANGED NotApproveVars

\* the response is sent; nothing of the request is kept
ApproveReturn ==
  /\ pc = "approve_done"
  /\ pc' = "idle" /\ plan' = NoPlan /\ send_email' = FALSE
  /\ results' = NoResults /\ http' = 0 /\ calls' = NoCalls /\ faults' = {}
  /\ UNCHANGED NotApproveVars

NextApprove ==
  ApproveReceive \/ ApproveMedicines \/ ApprovePreview \/ ApproveSend
    \/ ApproveReturn

SpecApprove == InitAgent /\ [][NextApprove]_vars

\* ------------------------------------------ app/pipeline/audio_utils.py
\* A path in UPLOAD_FOLDER is <<stem, extension>>; os.path.splitext gives the
\* two parts.  Temporary names are made of the stems 1..MaxStems.
Stems == 1..MaxStems
Exts == {".mp3", ".MP3", ".m4a", ".flac", ".wav", ""}
Paths == Stems \X Exts

\* str.lower on an extension
LowerExt(x) == IF x = ".MP3" THEN ".mp3" ELSE x

\* audio_path.lower().endswith((".mp3", ".m4a", ".flac"))
Convertible(path) == LowerExt(path[2]) \in {".mp3", ".m4a", ".flac"}

\* os.path.join(temp_dir, splitext(basename(audio_path))[0] + ".wav")
WavPathOf(path) == <<path[1], ".wav">>

\* what AudioSegment.from_*(...).export(...) does: it converts; or decoding
\* raises (no file is written); or export raises before or after it has
\* created the destination file
CodecOutcomes == {"ok", "decode_fails", "export_fails", "export_fails_partial"}

EnsureOut(path, files, codec_calls, fault) ==
  [path |-> path, files |-> files, codec |-> codec_calls, fault |-> fault]

\* a variant without the os.path.exists(wav_path) short cut
NeverCached(wav_path, files) == FALSE

AlreadyConverted(wav_path, files) == wav_path \in files

ensure_wav(audio_path, files, codec) ==
  IF Convertible(audio_path)
  THEN LET wav_path == WavPathOf(audio_path)
       IN IF AlreadyConverted(wav_path, files)
          THEN EnsureOut(wav_path, files, 0, "none")
          ELSE CASE codec = "ok" ->
                      EnsureOut(wav_path, files \cup {wav_path}, 1, "none")
                 [] codec = "decode_fails" ->
                      EnsureOut(audio_path, files, 1, "codec")
                 [] codec = "export_fails" ->
                      EnsureOut(audio_path, files, 1, "codec")
                 [] codec = "export_fails_partial" ->
                      EnsureOut(audio_path, files \cup {wav_path}, 1, "codec")
  ELSE EnsureOut(audio_path, files, 0, "none")

\* ------------------------------------------------- two calls of ensure_wav
NotWavVars == <<plan, send_email, analysis, ret, results, http, calls, faults,
                audio, waiting, acalls, ner>>

\* a caller picks a path; the folder holds any of the path and its converted
\* sibling
WavStart ==
  /\ pc = "idle"
  /\ \E path \in Paths :
       \E files \in SUBSET {path, WavPathOf(path)} :
         /\ wav' = [NoWav EXCEPT !.path = path]
         /\ fs' = files
  /\ pc' = "wav_calls"
  /\ UNCHANGED NotWavVars

EnsureWavCall ==
  /\ pc = "wav_calls"
  /\ Len(wav.returns) < 2
  /\ \E codec \in CodecOutcomes :
       LET o == ensure_wav(wav.path, fs, codec)
       IN /\ fs' = o.files
          /\ wav' = [wav EXCEPT !.returns = Append(@, o.path),
                                 !.codec = Append(@, o.codec),
                                 !.outcomes = Append(@, o.fault)]
  /\ UNCHANGED pc
  /\ UNCHANGED NotWavVars

WavReturn ==
  /\ pc = "wav_calls"
  /\ Len(wav.returns) = 2
  /\ pc' = "idle" /\ fs' = {} /\ wav' = NoWav
  /\ UNCHANGED NotWavVars

NextWav == WavStart \/ EnsureWavCall \/ WavReturn

SpecWav == InitAgent /\ [][NextWav]_vars

\* -------------------------------------------- app/pipeline/nlp_utils.py
\* An entity is a (text, label) pair as extract_entities builds it.
EntityTextPool == <<"aspirin", "fever", "cough", "ibuprofen", "asthma">>
EntityLabels == {"CHEMICAL", "DISEASE"}
Entities ==
  {<<EntityTextPool[i], l>> : i \in 1..MaxEntityTexts, l \in EntityLabels}

\* A Python float is an IEEE-754 double.  A double is kept exactly, as
\* m * 2^e with m a natural number of MantissaBits bits (or 0); a natural
\* number is a little-endian sequence of limbs of LimbBits bits without
\* leading zero limbs, so that no step leaves the 32-bit integers.
\* round(x, 3) is kept in thousandths.
LimbBits == 15
Base == 2^LimbBits
MantissaBits == 53

Limb(x, i) == IF i <= Len(x) THEN x[i] ELSE 0

RECURSIVE Norm(_)
Norm(x) ==
  IF x = <<>> THEN <<>>
  ELSE IF x[Len(x)] = 0 THEN Norm(SubSeq(x, 1, Len(x) - 1)) ELSE x

RECURSIVE FromInt(_)
FromInt(n) == IF n = 0 THEN <<>> ELSE <<n % Base>> \o FromInt(n \div Base)

RECURSIVE ToInt(_)
ToInt(x) == IF x = <<>> THEN 0 ELSE x[1] + Base * ToInt(Tail(x))

RECURSIVE BitLenLimb(_)
BitLenLimb(l) == IF l = 0 THEN 0 ELSE 1 + BitLenLimb(l \div 2)

BitLen(x) ==
  IF x = <<>> THEN 0 ELSE LimbBits * (Len(x) - 1) + BitLenLimb(x[Len(x)])

RECURSIVE CmpFrom(_, _, _)
CmpFrom(x, y, i) ==
  IF i = 0 THEN 0
  ELSE IF x[i] # y[i] THEN (IF x[i] < y[i] THEN -1 ELSE 1)
  ELSE CmpFrom(x, y, i - 1)

\* -1, 0 or 1 as x is less than, equal to or greater than y
Cmp(x, y) ==
  IF Len(x) # Len(y) THEN (IF Len(x) < Len(y) THEN -1 ELSE 1)
  ELSE CmpFrom(x, y, Len(x))

RECURSIVE AddFrom(_, _, _, _)
AddFrom(x, y, i, carry) ==
  IF i > Len(x) /\ i > Len(y) THEN (IF carry = 0 THEN <<>> ELSE <<carry>>)
  ELSE LET s == Limb(x, i) + Limb(y, i) + carry
       IN <<s % Base>> \o AddFrom(x, y, i + 1, s \div Base)

Add(x, y) == AddFrom(x, y, 1, 0)

RECURSIVE SubFrom(_, _, _, _)
SubFrom(x, y, i, borrow) ==
  IF i > Len(x) THEN <<>>
  ELSE LET d == x[i] - Limb(y, i) - borrow
       IN <<(d + Base) % Base>> \o SubFrom(x, y, i + 1, IF d < 0 THEN 1 ELSE 0)

\* x - y for x >= y
Sub(x, y) == Norm(SubFrom(x, y, 1, 0))

RECURSIVE MulSmallFrom(_, _, _, _)
MulSmallFrom(x, k, i, carry) ==
  IF i > Len(x) THEN (IF carry = 0 THEN <<>> ELSE <<carry>>)
  ELSE LET p == x[i] * k + carry
       IN <<p % Base>> \o MulSmallFrom(x, k, i + 1, p \div Base)

\* x * k for a k below Base
MulSmall(x, k) == Norm(MulSmallFrom(x, k, 1, 0))

ShlLimbs(x, n) == IF x = <<>> THEN <<>> ELSE [i \in 1..n |-> 0] \o x

RECURSIVE MulFrom(_, _, _)
MulFrom(x, y, i) ==
  IF i > Len(y) THEN <<>>
  ELSE Add(ShlLimbs(MulSmall(x, y[i]), i - 1), MulFrom(x, y, i + 1))

Mul(x, y) == MulFrom(x, y, 1)

\* x * 2^k
Shl(x, k) == ShlLimbs(MulSmall(x, 2^(k % LimbBits)), k \div LimbBits)

\* x \div 2^k
Shr(x, k) ==
  LET n == k \div LimbBits
      r == k % LimbBits
      y == IF n >= Len(x) THEN <<>> ELSE SubSeq(x, n + 1, Len(x))
  IN IF y = <<>> \/ r = 0 THEN y
     ELSE Norm([i \in 1..Len(y) |->
                  (y[i] \div 2^r) + (Limb(y, i + 1) % 2^r) * 2^(LimbBits - r)])

\* x % 2^k
Low(x, k) ==
  LET n == k \div LimbBits
      r == k % LimbBits
  IN IF n >= Len(x) THEN x
     ELSE Norm(SubSeq(x, 1, n) \o (IF r = 0 THEN <<>> ELSE <<x[n + 1] % 2^r>>))

\* x / 2^k rounded to the nearest natural number, ties to even; sticky tells
\* that the number rounded is a little more than x
ShrRne(x, k, sticky) ==
  IF k = 0 THEN x
  ELSE LET q == Shr(x, k)
           c == Cmp(Low(x, k), Shl(<<1>>, k - 1))
           odd == q # <<>> /\ q[1] % 2 = 1
       IN IF c > 0 \/ (c = 0 /\ (sticky \/ odd)) THEN Add(q, <<1>>) ELSE q

Double(m, e) == [m |-> m, e |-> e, raised |-> FALSE]
Zero == Double(<<>>, 0)
\* the value of an expression whose evaluation raised ZeroDivisionError
ZeroDivisionError == [m |-> <<>>, e |-> 0, raised |-> TRUE]

\* the double nearest to n * 2^e (round to nearest, ties to even)
ToDouble(n, e, sticky) ==
  IF n = <<>> THEN Zero
  ELSE LET bl == BitLen(n)
       IN IF bl <= MantissaBits
          THEN Double(Shl(n, MantissaBits - bl), e - (MantissaBits - bl))
          ELSE LET q == ShrRne(n, bl - MantissaBits, sticky)
               IN IF BitLen(q) > MantissaBits
                  THEN Double(Shr(q, 1), e + bl - MantissaBits + 1)
                  ELSE Double(q, e + bl - MantissaBits)

\* one more bit of the quotient of r by d (r < d), after the bits q
DivBit(r, d, q) ==
  LET r2 == Add(r, r)
      q2 == Add(q, q)
  IN IF Cmp(r2, d) >= 0 THEN [q |-> Add(q2, <<1>>), r |-> Sub(r2, d)]
     ELSE [q |-> q2, r |-> r2]

\* k more bits of it, k >= 1: the first half of them, then the rest (the
\* one-element set binds the intermediate result to its value)
RECURSIVE DivBits(_, _, _, _)
DivBits(r, d, k, q) ==
  IF k = 1 THEN DivBit(r, d, q)
  ELSE CHOOSE out \in {DivBits(first.r, d, k - k \div 2, first.q) :
                         first \in {DivBits(r, d, k \div 2, q)}} : TRUE

\* x / y on floats, y # 0.0: two bits more than the mantissa are computed,
\* the remainder is the sticky bit
FDiv(x, y) ==
  IF x.m = <<>> THEN Zero
  ELSE LET big == Cmp(x.m, y.m) >= 0
           d == DivBits(IF big THEN Sub(x.m, y.m) ELSE x.m, y.m,
                        MantissaBits + 2, IF big THEN <<1>> ELSE <<>>)
       IN ToDouble(d.q, x.e - y.e - (MantissaBits + 2), d.r # <<>>)

\* x * y on floats
FMul(x, y) == ToDouble(Mul(x.m, y.m), x.e + y.e, FALSE)

\* x + y on floats
FAdd(x, y) ==
  IF x.m = <<>> THEN y
  ELSE IF y.m = <<>> THEN x
  ELSE IF x.e >= y.e
  THEN ToDouble(Add(Shl(x.m, x.e - y.e), y.m), y.e, FALSE)
  ELSE ToDouble(Add(Shl(y.m, y.e - x.e), x.m), x.e, FALSE)

\* float(n) for an int n >= 0
IntToFloat(n) == ToDouble(FromInt(n), 0, FALSE)

\* a / b on ints, b # 0 (true division is correctly rounded)
TrueDiv(a, b) == FDiv(IntToFloat(a), IntToFloat(b))

\* round(x, 3) * 1000 for a float 0 <= x: the decimal nearest to the double
\* itself, ties to even
Round3(x) ==
  LET t == MulSmall(x.m, 1000)
  IN ToInt(IF x.e < 0 THEN ShrRne(t, -x.e, FALSE) ELSE Shl(t, x.e))

\* a variant that divides without looking at the denominator
RatioUnguarded(num, den) ==
  IF den = 0 THEN ZeroDivisionError ELSE TrueDiv(num, den)

\* num / den if den > 0 else 0
Ratio(num, den) == IF den > 0 THEN TrueDiv(num, den) ELSE Zero

\* (2 * precision * recall) / (precision + recall) if (precision + recall) > 0 else 0
F1Of(precision, recall) ==
  IF precision.raised \/ recall.raised THEN ZeroDivisionError
  ELSE LET sum == FAdd(precision, recall)
       IN IF sum.m # <<>>
          THEN FDiv(FMul(FMul(IntToFloat(2), precision), recall), sum)
          ELSE Zero

\* lines 32-47 on the three counts
MetricsOf(TP, FP, FN) ==
  LET precision == Ratio(TP, TP + FP)
      recall == Ratio(TP, TP + FN)
      f1 == F1Of(precision, recall)
  IN [TP |-> TP, FP |-> FP, FN |-> FN,
      Precision |-> Round3(precision),
      Recall |-> Round3(recall),
      F1_Score |-> Round3(f1),
      raised |-> (precision.raised \/ recall.raised \/ f1.raised)]

calculate_ner_metrics(reference_entities, system_entities) ==
  MetricsOf(Cardinality(reference_entities \cap system_entities),
            Cardinality(system_entities \ reference_entities),
            Cardinality(reference_entities \ system_entities))

NotNerVars == <<plan, send_email, analysis, ret, results, http, calls, faults,
                fs, audio, waiting, acalls, wav>>

CallNerMetrics ==
  /\ pc = "idle"
  /\ \E reference \in SUBSET Entities, system \in SUBSET Entities :
       ner' = [reference |-> reference, system |-> system,
               metrics |-> calculate_ner_metrics(reference, system)]
  /\ pc' = "ner_metrics"
  /\ UNCHANGED NotNerVars

NerReturn ==
  /\ pc = "ner_metrics"
  /\ pc' = "idle" /\ ner' = NoNer
  /\ UNCHANGED NotNerVars

NextNer == CallNerMetrics \/ NerReturn

SpecNer == InitAgent /\ [][NextNer]_vars

\* ------------------------------------------ backend_api.py: /process_audio
\* audio.filename: none or empty (<<>>), or a name with its extension
\* (an extension that is converted and one that is passed through)
UploadExts == {".mp3", ".wav"}
Filenames == {<<>>} \cup {<<"visit", x>> : x \in UploadExts}
\* the entities the NER model finds in one of a request's two texts: none,
\* or the chemicals
RequestEntities == {x \in Entities : x[2] = "CHEMICAL"}
RequestEntitySets == {{}, RequestEntities}
\* the form field section_text: empty (its default), blank, or a reference
SectionTexts == {<<>>, <<WS>>, <<"reference note">>}
\* transcribe_file returns "" on any failure, else the transcript
Transcripts == {<<>>, <<"transcript">>}
\* query_gemini raises, or returns a falsy or a non-empty summary
SummaryOutcomes == {"raises", "empty", "ok"}
Soap == <<"soap note">>
\* NamedTemporaryFile(...) creates the temporary file or raises
CreateOutcomes == {"create_fails", "ok"}
\* audio.read() and temp_audio_file.write(contents): one of them raises, or
\* the upload is saved
WriteOutcomes == {"write_fails", "ok"}

\* the finally clause, lines 134-138: 'filepath' in locals() and exists
Cleanup(files, filepath, status) ==
  IF filepath # NoPath /\ filepath \in files THEN files \ {filepath} ELSE files

\* a variant that cleans up on the successful path only
CleanupOnSuccess(files, filepath, status) ==
  IF status = 200 THEN Cleanup(files, filepath, status) ELSE files

Finally(files, filepath, status) == Cleanup(files, filepath, status)

\* a variant of the transcript test that lets an empty transcript through
TranscriptAlwaysOk(t) == TRUE

\* the test "if not transcript" (line 95), negated
TranscriptOk(t) == t # <<>>

NotAudioVars == <<plan, send_email, analysis, ret, results, calls, wav, ner>>

\* the response leaves through the handler's except and finally clauses
AudioEnd(status, files, filepath) ==
  /\ http' = status
  /\ fs' = Finally(files, filepath, status)
  /\ pc' = "audio_done"

\* lines 73-78: the filename check, before the try block.  The event loop
\* starts a handler only while no other handler is running on it; at most
\* MaxRequests requests are in flight
AudioReceive ==
  /\ pc = "idle"
  /\ Cardinality(waiting) < MaxRequests
  /\ \E name \in Filenames, text \in SectionTexts :
       /\ audio' = [NoAudio EXCEPT !.filename = name, !.section_text = text]
       /\ IF name = <<>>
          THEN /\ http' = 400 /\ pc' = "audio_done"
          ELSE /\ http' = 0 /\ pc' = "audio_save"
  /\ UNCHANGED <<faults, fs, waiting, acalls>>
  /\ UNCHANGED NotAudioVars

\* lines 85-86: NamedTemporaryFile(delete=False, dir=UPLOAD_FOLDER, suffix=ext)
\* creates the file; at "await audio.read()" the handler is suspended and the
\* event loop is free for another request
AudioSave ==
  /\ pc = "audio_save"
  /\ \E outcome \in CreateOutcomes :
       LET free == {st \in Stems : <<st, audio.filename[2]>> \notin fs}
       IN IF outcome = "create_fails" \/ free = {}
          THEN /\ acalls' = [acalls EXCEPT !.save = 1]
               /\ faults' = faults \cup {"save"}
               /\ AudioEnd(500, fs, NoPath)
               /\ UNCHANGED <<audio, waiting>>
          ELSE \E st \in free :
                 LET path == <<st, audio.filename[2]>>
                 IN /\ fs' = fs \cup {path}
                    /\ waiting' = waiting \cup
                         {[audio EXCEPT !.temp = path, !.created = {path}]}
                    /\ audio' = NoAudio
                    /\ pc' = "idle"
                    /\ UNCHANGED <<http, faults, acalls>>
  /\ UNCHANGED NotAudioVars

\* lines 86-88: a suspended handler is resumed with the upload's contents (or
\* with the exception read raised), writes them and binds filepath; from here
\* to its response the handler does not give up the event loop
AudioResume ==
  /\ pc = "idle"
  /\ \E r \in waiting, outcome \in WriteOutcomes :
       /\ waiting' = waiting \ {r}
       /\ acalls' = [acalls EXCEPT !.save = 1]
       /\ IF outcome = "write_fails"
          THEN /\ audio' = r
               /\ faults' = faults \cup {"save"}
               /\ AudioEnd(500, fs, NoPath)
          ELSE /\ audio' = [r EXCEPT !.filepath = r.temp]
               /\ pc' = "audio_convert"
               /\ UNCHANGED <<http, faults, fs>>
  /\ UNCHANGED NotAudioVars

\* line 92
AudioConvert ==
  /\ pc = "audio_convert"
  /\ \E codec \in CodecOutcomes :
       LET o == ensure_wav(audio.filepath, fs, codec)
       IN /\ fs' = o.files
          /\ audio' = [audio EXCEPT !.wav_path = o.path,
                                     !.created = @ \cup (o.files \ fs)]
          /\ acalls' = [acalls EXCEPT !.codec = o.codec]
          /\ faults' = faults \cup ({o.fault} \ {"none"})
  /\ pc' = "audio_transcribe"
  /\ UNCHANGED <<http, waiting>>
  /\ UNCHANGED NotAudioVars

\* lines 93-97
AudioTranscribe ==
  /\ pc = "audio_transcribe"
  /\ acalls' = [acalls EXCEPT !.whisper = 1]
  /\ \E t \in Transcripts :
       /\ audio' = [audio EXCEPT !.transcript = t]
       /\ IF TranscriptOk(t)
          THEN /\ pc' = "audio_summarize"
               /\ UNCHANGED <<http, fs>>
          ELSE AudioEnd(500, fs, audio.filepath)
  /\ UNCHANGED <<faults, waiting>>
  /\ UNCHANGED NotAudioVars

\* section_text and section_text.strip()
WantsNer(text) == text # <<>> /\ Strip(text) # <<>>

\* lines 99-111 and, without reference text, the response of lines 128-129
AudioSummarize ==
  /\ pc = "audio_summarize"
  /\ acalls' = [acalls EXCEPT !.gemini = 1]
  /\ \E outcome \in SummaryOutcomes :
       IF outcome = "ok"
       THEN /\ audio' = [audio EXCEPT !.soap = Soap]
            /\ UNCHANGED faults
            /\ IF WantsNer(audio.section_text)
               THEN /\ pc' = "audio_ner"
                    /\ UNCHANGED <<http, fs>>
               ELSE AudioEnd(200, fs, audio.filepath)
       ELSE /\ faults' = IF outcome = "raises" THEN faults \cup {"gemini"}
                                              ELSE faults
            /\ AudioEnd(500, fs, audio.filepath)
            /\ UNCHANGED audio
  /\ UNCHANGED waiting
  /\ UNCHANGED NotAudioVars

\* lines 114-129: the NER model raises, or gives the two entity lists
AudioNer ==
  /\ pc = "audio_ner"
  /\ acalls' = [acalls EXCEPT !.ner = 1]
  /\ \/ /\ audio' = [audio EXCEPT !.ner = [NoNerOut EXCEPT !.state = "error"]]
        /\ faults' = faults \cup {"ner"}
     \/ \E reference \in RequestEntitySets, system \in RequestEntitySets :
          /\ audio' = [audio EXCEPT !.ner =
                         [state |-> "ok", reference |-> reference,
                          system |-> system,
                          metrics |-> calculate_ner_metrics(reference, system)]]
          /\ UNCHANGED faults
  /\ AudioEnd(200, fs, audio.filepath)
  /\ UNCHANGED waiting
  /\ UNCHANGED NotAudioVars

\* the response is sent: the handler's locals go, the folder and the
\* suspended requests stay
AudioReturn ==
  /\ pc = "audio_done"
  /\ pc' = "idle" /\ http' = 0 /\ faults' = {}
  /\ audio' = NoAudio /\ acalls' = NoAudioCalls
  /\ UNCHANGED <<fs, waiting>>
  /\ UNCHANGED NotAudioVars

NextAudio ==
  AudioReceive \/ AudioSave \/ AudioResume \/ AudioConvert
    \/ AudioTranscribe \/ AudioSummarize \/ AudioNer \/ AudioReturn

SpecAudio == InitAgent /\ [][NextAudio]_vars

\* ------------------------------------------------- claims on /approve_plan
ApproveFaults(step) == {f \in faults : f[1] = step}

\* C1: for a plan_section that is a non-empty string other than "n/a" the
\* response has status 200 whatever the LLM, the parser, the spreadsheet writer
\* and the email sender do; a collaborator that raised shows as status "error"
\* under medicine_processing / appointment_preview / appointment_sending, and
\* appointment processing runs after a failed medicine processing
C1_PartialFailuresIn200 ==
  (pc = "approve_done" /\ plan.given /\ plan.text # <<>> /\ plan.text # <<"n/a">>) =>
    /\ http = 200
    /\ ApproveFaults("medicines") # {} =>
         /\ results.medicine_processing.status = "error"
         /\ results.appointment_preview # NoRes
         /\ calls.llm >= 2
    /\ ApproveFaults("preview") # {} =>
         results.appointment_preview.status = "error"
    /\ ApproveFaults("sending") # {} =>
         results.appointment_sending.status = "error"

C1_Witness ==
  /\ pc = "approve_done" /\ http = 200
  /\ plan.text = <<"rest">>
  /\ <<"medicines", "parser">> \in faults
  /\ <<"sending", "email">> \in faults
  /\ results.medicine_processing.status = "error"
  /\ results.appointment_preview.status = "success"
  /\ results.appointment_sending.status = "error"

\* "n/a" in any letter case, with white space around it
NaLike(t) ==
  \E i \in 1..Len(t) :
    /\ t[i] \in {"n/a", "N/A"}
    /\ \A j \in (1..Len(t)) \ {i} : t[j] = WS

\* C2: a plan_section that is missing, empty or "n/a" (any letter case,
\* trimmed) gets the warning response with status 200, and no LLM, parser,
\* spreadsheet-writer or email-sender call is made for that request
C2_InvalidPlanWarns ==
  (pc \in {"approve_medicines", "approve_preview", "approve_send", "approve_done"}
     /\ (~plan.given \/ plan.text = <<>> \/ NaLike(plan.text))) =>
    /\ pc = "approve_done"
    /\ http = 200
    /\ results = [NoResults EXCEPT !.status = <<"warning">>, !.message = MsgWarning]
    /\ calls = NoCalls

C2_Witness ==
  /\ pc = "approve_done" /\ http = 200
  /\ plan = [given |-> TRUE, text |-> <<WS, "N/A">>]
  /\ results.status = <<"warning">>
  /\ calls = NoCalls

\* C11: in /approve_plan the message agrees with what happened: the message
\* "Plan approved and actions executed (including appointment email)." and the
\* appointment_sending field appear only if the email sender was invoked during
\* the request, and whenever the plan yields no appointment the message is
\* "Plan approved, but no appointment found or email generation failed." and
\* no second (sending) call of process_appointment is made
C11_AsClaimed ==
  pc = "approve_done" =>
    /\ results.message = MsgExecuted => calls.email >= 1
    /\ results.appointment_sending # NoRes => calls.email >= 1
    /\ results.appointment_preview.result = NoAppointment =>
         /\ results.message = MsgNoAppointment
         /\ results.appointment_sending = NoRes

\* ------------------------------------------------- claims on the agent code
\* the prefix of s before its first token in stops (all of s when none is)
TextUpTo(s, stops) ==
  LET at == {i \in 1..Len(s) : s[i] \in stops}
  IN IF at = {} THEN s
     ELSE SubSeq(s, 1, (CHOOSE i \in at : \A j \in at : i <= j) - 1)

\* the trimmed text after the first marker of a, up to the next token in stops
PayloadAfter(a, marker, stops) ==
  Strip(TextUpTo(SubSeq(a, IndexOf(a, marker) + 1, Len(a)), stops))

\* a payload that is non-empty and is not "none" in any letter case
RealPayload(t) == t # <<>> /\ Lower(t) # <<"none">>

\* x occurs in s as a contiguous piece
Infix(x, s) ==
  \E i \in 0..(Len(s) - Len(x)) : SubSeq(s, i + 1, i + Len(x)) = x

MedicinesDecision(found) ==
  /\ (calls.parser = 1) <=> found
  /\ (calls.excel = 1) <=> (found /\ "parser" \notin faults)
  /\ calls.parser <= 1 /\ calls.excel <= 1
  /\ (~found /\ ret.status # "error") =>
       /\ ret = Res("success", NoMedicines, Absent, Absent, Absent)
       /\ calls.excel = 0

\* C6 as claimed: process_medicines invokes the parser and the spreadsheet
\* writer exactly when the analysis holds MEDICINES_FOUND: and the trimmed text
\* between that marker and the next APPOINTMENT_FOUND: marker (or the end) is
\* non-empty and not "none"; otherwise it returns "No medicines found."
C6_AsClaimed ==
  (pc = "process_medicines" /\ analysis.ok) =>
    MedicinesDecision(
      /\ Contains(analysis.content, MED)
      /\ RealPayload(PayloadAfter(analysis.content, MED, {APPT})))

\* C6 amended: the payload ends at the next marker of either kind, a second
\* MEDICINES_FOUND: as well as APPOINTMENT_FOUND: (or at the end of the text)
C6_MedicinesGate ==
  (pc = "process_medicines" /\ analysis.ok) =>
    MedicinesDecision(
      /\ Contains(analysis.content, MED)
      /\ RealPayload(PayloadAfter(analysis.content, MED, {MED, APPT})))

C6_Witness ==
  /\ pc = "process_medicines" /\ analysis.ok
  /\ analysis.content = <<MED, WS, "details">>
  /\ calls.parser = 1 /\ calls.excel = 1
  /\ ret = Res("success", ExcelResult, Absent, Absent, Absent)

\* C7: process_appointment never calls the email sender with send_email false;
\* it calls it at most once, and only with send_email true and an analysis
\* that holds APPOINTMENT_FOUND: followed by a non-empty payload other than
\* "none"; with send_email false and such a payload it returns success with
\* the composed email_content, which embeds the appointment text and the plan
C7_EmailOnlyOnRequest ==
  pc = "process_appointment" =>
    LET found == /\ analysis.ok
                 /\ Contains(analysis.content, APPT)
                 /\ RealPayload(PayloadAfter(analysis.content, APPT, {APPT}))
        text == PayloadAfter(analysis.content, APPT, {APPT})
    IN /\ ~send_email => calls.email = 0
       /\ calls.email <= 1
       /\ calls.email = 1 => (send_email /\ found)
       /\ (~send_email /\ found) =>
            /\ ret.status = "success"
            /\ ret.email_content \notin {Absent, PyNone, NoAppointmentInfo}
            /\ Infix(text, ret.email_content)
            /\ Infix(plan.text, ret.email_content)
            /\ ret.email_content =
                 EmailHead \o text \o EmailMid \o plan.text \o EmailTail

C7_Witness ==
  /\ pc = "process_appointment" /\ ~send_email /\ analysis.ok
  /\ analysis.content = <<APPT, WS, "details">>
  /\ plan.text = <<"rest">>
  /\ ret.status = "success" /\ calls.email = 0
  /\ Infix(<<"details">>, ret.email_content)

\* C8: without an APPOINTMENT_FOUND: marker process_appointment returns
\* success with "No appointment found."; email_content is the fixed fallback
\* message in preview mode and None with send_email true; no email is sent
C8_NoMarker ==
  (pc = "process_appointment" /\ analysis.ok
     /\ ~Contains(analysis.content, APPT)) =>
    /\ ret.status = "success"
    /\ ret.result = NoAppointment
    /\ ret.email_content = (IF send_email THEN PyNone ELSE NoAppointmentInfo)
    /\ calls.email = 0

C8_Witness ==
  /\ pc = "process_appointment" /\ analysis.ok
  /\ analysis.content = <<MED, WS, "details">>
  /\ send_email
  /\ ret = Res("success", NoAppointment, PyNone, Absent, Absent)

\* ------------------------------------------------ claims on /process_audio
\* the status codes of a finished request; to500 are the collaborators whose
\* exception is to end in a 500
AudioStatuses(to500) ==
  pc = "audio_done" =>
    /\ http \in {200, 400, 500}
    /\ (http = 400) <=> (audio.filename = <<>>)
    /\ http = 400 => (acalls = NoAudioCalls /\ audio.created = {})
    /\ (acalls.whisper = 1 /\ audio.transcript = <<>>) =>
         (http = 500 /\ acalls.gemini = 0)
    /\ (acalls.gemini = 1 /\ audio.soap = <<>>) => http = 500
    /\ faults \cap to500 # {} => http = 500
    /\ http = 200 => (audio.transcript # <<>> /\ audio.soap # <<>>)

\* C3 as claimed: 400 without a filename, before a file is written or a model
\* called; 500 for an empty transcript (the summarizer is then not invoked),
\* for an empty summary and for any other exception; 200 only with both a
\* transcript and a summary
C3_AsClaimed == AudioStatuses({"save", "gemini", "ner"})

\* C3 amended: "any other exception" is one that reaches the handler's outer
\* except clause; an exception while the NER metrics are computed is caught
\* inside, reported as ner_metrics_error, and the response is still 200
C3_StatusCodes ==
  /\ AudioStatuses({"save", "gemini"})
  /\ (pc = "audio_done" /\ "ner" \in faults) =>
       (http = 200 /\ audio.ner.state = "error")

C3_Witness ==
  /\ pc = "audio_done" /\ http = 500
  /\ audio.filepath # NoPath
  /\ acalls.whisper = 1 /\ audio.transcript = <<>>
  /\ acalls.gemini = 0

\* C4: once the upload was saved to a temporary file, that file does not
\* exist when the request has finished, whichever way it finished
C4_TempFileRemoved ==
  (pc = "audio_done" /\ audio.filepath # NoPath) => audio.filepath \notin fs

C4_Witness ==
  /\ pc = "audio_done" /\ http = 500
  /\ "gemini" \in faults
  /\ audio.filepath = <<1, ".mp3">>
  /\ audio.filepath \notin fs

\* C5: nothing a request creates outlives it: when a request whose upload was
\* saved has finished, UPLOAD_FOLDER holds none of the files the request
\* created, the converted file written next to an MP3/M4A/FLAC upload
\* included.  (Without the premise on the upload the statement fails as well:
\* an upload whose write raised stays, because filepath was never bound.)
C5_AsClaimed ==
  (pc = "audio_done" /\ audio.filepath # NoPath) => audio.created \cap fs = {}

\* --------------------------------------------------- claims on ensure_wav
\* C9 as claimed: two calls in a row on the same path return the same path,
\* and the second does not invoke the codec, whatever the extension and
\* whatever the first call's outcome, a failed decode or export included
C9_AsClaimed ==
  (pc = "wav_calls" /\ Len(wav.returns) = 2) =>
    /\ wav.returns[1] = wav.returns[2]
    /\ wav.codec[2] = 0

\* C9 amended: the same holds whenever the first call's decode and export did
\* not fail (the extension is not one to convert, the converted file was
\* already there, or the conversion succeeded)
C9_IdempotentUnlessFailed ==
  (pc = "wav_calls" /\ Len(wav.returns) = 2 /\ wav.outcomes[1] = "none") =>
    /\ wav.returns[1] = wav.returns[2]
    /\ wav.codec[2] = 0

C9_Witness ==
  /\ pc = "wav_calls" /\ Len(wav.returns) = 2
  /\ wav.path = <<1, ".MP3">>
  /\ wav.codec = <<1, 0>>
  /\ wav.outcomes[1] = "none"
  /\ wav.returns = <<(<<1, ".wav">>), (<<1, ".wav">>)>>

\* ----------------------------------------- claims on calculate_ner_metrics
\* C10: TP = |reference & system|, FP = |system - reference|,
\* FN = |reference - system|; disjoint sets (empty ones included) give
\* Precision = Recall = F1_Score = 0, identical non-empty sets give 1.0 for
\* all three, and no input makes a division by zero
C10_NerMetrics ==
  pc = "ner_metrics" =>
    LET m == ner.metrics
        both == {x \in Entities : x \in ner.reference /\ x \in ner.system}
        only_sys == {x \in Entities : x \in ner.system /\ x \notin ner.reference}
        only_ref == {x \in Entities : x \in ner.reference /\ x \notin ner.system}
    IN /\ m.TP = Cardinality(both)
       /\ m.FP = Cardinality(only_sys)
       /\ m.FN = Cardinality(only_ref)
       /\ both = {} => (m.Precision = 0 /\ m.Recall = 0 /\ m.F1_Score = 0)
       /\ (ner.reference = ner.system /\ ner.reference # {}) =>
            (m.Precision = 1000 /\ m.Recall = 1000 /\ m.F1_Score = 1000)
       /\ ~m.raised

C10_Witness ==
  /\ pc = "ner_metrics"
  /\ ner.reference = {<<"aspirin", "CHEMICAL">>, <<"fever", "DISEASE">>}
  /\ ner.system = {<<"aspirin", "CHEMICAL">>, <<"aspirin", "DISEASE">>}
  /\ ner.metrics = [TP |-> 1, FP |-> 1, FN |-> 1, Precision |-> 500,
                     Recall |-> 500, F1_Score |-> 500, raised |-> FALSE]

====
